---- MODULE Spec2Model ----
(***************************************************************************)
(* Model of AuthService (src/src/video/video.service.ts, lines 284-632):   *)
(* signUp, resendVerificationEmail, verifyEmail, login, refreshTokens,     *)
(* googleLogin, forgotPassword and resetPassword over the user table, the  *)
(* login_events table, the mails handed to EmailService and the refresh    *)
(* tokens handed to clients.  In Spec, SpecAccount, SpecReset and           *)
(* SpecRefresh every handler runs as one atomic step; in SpecRace and       *)
(* SpecResetRace two requests run at once and a handler is a sequence of    *)
(* steps, one per awaited repository or collaborator call, whose locals     *)
(* are kept in inflight.                                                    *)
(* call and result hold the last operation (with the token presented to    *)
(* refreshTokens) and what it returned or threw; redeemed is a history     *)
(* variable: the reset tokens resetPassword has accepted so far.           *)
(* Time is counted in whole seconds, the unit of the JWT iat/exp claims.   *)
(***************************************************************************)
EXTENDS Integers, Sequences, FiniteSets, TLC

VARIABLES users, loginEvents, outbox, issued, redeemed, now, call, result,
          inflight

vars ==
    <<users, loginEvents, outbox, issued, redeemed, now, call, result, inflight>>

(***************************************************************************)
(* Bounds of the model.                                                    *)
(***************************************************************************)
MaxTime == 2
MaxEvents == 2
MaxMails == 3

Emails == {"a@x.com", "b@x.com"}
SoloEmails == {"a@x.com"}
Passwords == {"P@ssw0rd", "hunter2"}
Roles == {"user", "admin"}

(***************************************************************************)
(* Lifetimes, in model seconds (scaled to the model clock).                *)
(***************************************************************************)
EmailTokenTTL == 2
ResetTokenTTL == 2
ResetExpiryDelta == 2
AccessTokenTTL == 1
RefreshTokenTTL == 2

JWT_SECRET == "JWT_SECRET"
ACCESS_TOKEN_SECRET == "ACCESS_TOKEN_SECRET"
REFRESH_TOKEN_SECRET == "REFRESH_TOKEN_SECRET"
ForgedSecret == "forged"

RoleUser == "user"
StatusActive == "active"
DefaultStatus == "unverified"

NullDate == 0 - 1
NullHash == <<>>
NoData == [empty |-> TRUE]

(***************************************************************************)
(* JSON web tokens.  A token is its claims, the secret that signed it and  *)
(* the iat/exp stamps: jwt.sign is a deterministic function of these, so   *)
(* two tokens signed over the same claims in the same second are the same  *)
(* string.  wf = FALSE is a string that does not decode.                   *)
(***************************************************************************)
EmptyClaims ==
    [wf |-> TRUE, secret |-> "none", sub |-> 0, role |-> "undefined",
     email |-> "undefined", id |-> 0, iat |-> 0, exp |-> 0]

NullToken == [EmptyClaims EXCEPT !.wf = FALSE, !.secret = "null"]

MalformedToken == [EmptyClaims EXCEPT !.wf = FALSE, !.secret = "garbage"]

jwtSign(claims, secret, ttl) ==
    [claims EXCEPT !.secret = secret, !.iat = now, !.exp = now + ttl]

jwtVerify(token, secret) ==
    token.wf /\ token.secret = secret /\ now < token.exp

jwtDecode(token) == token.wf

Forge(token) == [token EXCEPT !.secret = ForgedSecret]

(***************************************************************************)
(* Collaborators: PasswordStrategy / bcrypt, UsersService, response        *)
(* handler and the exceptions of the framework.                            *)
(***************************************************************************)
hashPassword(password) == <<"bcrypt", password>>

bcryptCompare(password, hash) == hash = hashPassword(password)

UsersWithEmail(table, email) == SelectSeq(table, LAMBDA u : u.email = email)

findUserByEmail(email) == UsersWithEmail(users, email)

successHandler(message, data) ==
    [status |-> "success", message |-> message, data |-> data]

Call(op, token) == [op |-> op, token |-> token]

Exception(class, message) ==
    [status |-> class, message |-> message, data |-> NoData]

StripPassword(user) == [f \in DOMAIN user \ {"password"} |-> user[f]]

SaveUser(user) == [users EXCEPT ![user.id] = user]

(***************************************************************************)
(* getTokens, generateEmailToken, verifyEmailToken                         *)
(***************************************************************************)
getTokens(userId, role) ==
    [accessToken |->
        jwtSign([EmptyClaims EXCEPT !.sub = userId, !.role = role],
                ACCESS_TOKEN_SECRET, AccessTokenTTL),
     refreshToken |->
        jwtSign([EmptyClaims EXCEPT !.sub = userId, !.role = role],
                REFRESH_TOKEN_SECRET, RefreshTokenTTL)]

generateEmailToken(email) ==
    jwtSign([EmptyClaims EXCEPT !.email = email], JWT_SECRET, EmailTokenTTL)

verifyEmailToken_decodeOnly(token) == token.wf /\ token.secret = JWT_SECRET

verifyEmailToken(token) == jwtVerify(token, JWT_SECRET)

VerificationMail(email, token) ==
    [kind |-> "verification", to |-> email, token |-> token]

PasswordResetMail(email, token) ==
    [kind |-> "reset", to |-> email, token |-> token]

(***************************************************************************)
(* recordLoginEvent                                                        *)
(***************************************************************************)
recordLoginEvent(user, successful, loginMethod, failureReason) ==
    Append(loginEvents,
           [userId |-> user.id, timestamp |-> now, loginMethod |-> loginMethod,
            successful |-> successful, failureReason |-> failureReason])

(***************************************************************************)
(* Requests in flight: the locals of a handler between two of its awaits.  *)
(***************************************************************************)
ProcIds == {1, 2}

NoUser == [id |-> 0]

IdleFrame ==
    [op |-> "idle", pc |-> "idle", email |-> "none", password |-> "none",
     role |-> "none", token |-> NullToken, userInfo |-> NoUser, eventAt |-> 0]

(***************************************************************************)
(* State after construction: empty tables, nothing sent, clock at 0.       *)
(***************************************************************************)
Init ==
    /\ users = <<>>
    /\ loginEvents = <<>>
    /\ outbox = {}
    /\ issued = {}
    /\ now = 0
    /\ redeemed = {}
    /\ call = Call("init", NullToken)
    /\ result = Exception("none", "none")
    /\ inflight = [p \in ProcIds |-> IdleFrame]

(***************************************************************************)
(* signUp                                                                  *)
(***************************************************************************)
signUpEmailTaken_never(email) == FALSE

signUpEmailTaken(email) == Len(findUserByEmail(email)) # 0

signUpNewUser_plaintext(email, password, userRole, emailToken) ==
    [id |-> Len(users) + 1,
     email |-> email,
     password |-> <<"plain", password>>,
     role |-> userRole,
     status |-> DefaultStatus,
     email_verification_token |-> emailToken,
     reset_pass_token |-> NullToken,
     reset_pass_token_expiry |-> NullDate,
     last_login |-> NullDate]

signUpNewUser(email, password, userRole, emailToken) ==
    [id |-> Len(users) + 1,
     email |-> email,
     password |-> hashPassword(password),
     role |-> userRole,
     status |-> DefaultStatus,
     email_verification_token |-> emailToken,
     reset_pass_token |-> NullToken,
     reset_pass_token_expiry |-> NullDate,
     last_login |-> NullDate]

signUpReturnedUser_unstripped(newUser) == newUser

signUpReturnedUser(newUser) == StripPassword(newUser)

(* createContact runs inside try/catch: its failure is logged, not thrown. *)
signUpContactThrows_uncaught(ghlOk) == ~ghlOk

signUpContactThrows(ghlOk) == FALSE

signUp(email, password, userRole, mailOk, ghlOk) ==
    LET emailToken == generateEmailToken(email)
        newUser == signUpNewUser(email, password, userRole, emailToken)
    IN  /\ call' = Call("signUp", NullToken)
        /\ UNCHANGED <<loginEvents, issued, redeemed, now, inflight>>
        /\ IF signUpEmailTaken(email)
           THEN /\ result' = Exception("BadRequestException",
                                       "User with this email already exists")
                /\ UNCHANGED <<users, outbox>>
           ELSE IF ~mailOk
           THEN /\ result' = Exception("Error", "sendVerificationEmail failed")
                /\ UNCHANGED <<users, outbox>>
           ELSE /\ Cardinality(outbox \cup {VerificationMail(email, emailToken)})
                       <= MaxMails
                /\ outbox' = outbox \cup {VerificationMail(email, emailToken)}
                /\ users' = Append(users, newUser)
                /\ result' = IF signUpContactThrows(ghlOk)
                              THEN Exception("Error", "createContact failed")
                              ELSE successHandler("User created successfully",
                                       [user |-> signUpReturnedUser(newUser)])

(***************************************************************************)
(* resendVerificationEmail                                                 *)
(***************************************************************************)
resendAlreadyVerified_never(userInfo) == FALSE

resendAlreadyVerified(userInfo) == userInfo.status = "active"

resendVerificationEmail(email, mailOk) ==
    LET found == findUserByEmail(email)
        emailToken == generateEmailToken(email)
    IN  /\ call' = Call("resendVerificationEmail", NullToken)
        /\ UNCHANGED <<loginEvents, issued, redeemed, now, inflight>>
        /\ IF Len(found) = 0
           THEN /\ result' = Exception("NotFoundException",
                                       "User with this email does not exist")
                /\ UNCHANGED <<users, outbox>>
           ELSE IF resendAlreadyVerified(found[1])
           THEN /\ result' = Exception("BadRequestException",
                                       "Account already verified")
                /\ UNCHANGED <<users, outbox>>
           ELSE IF ~mailOk
           THEN /\ result' = Exception("Error", "sendVerificationEmail failed")
                /\ UNCHANGED <<users, outbox>>
           ELSE /\ Cardinality(outbox \cup {VerificationMail(email, emailToken)})
                       <= MaxMails
                /\ outbox' = outbox \cup {VerificationMail(email, emailToken)}
                /\ users' = [users EXCEPT ![found[1].id].email_verification_token
                                              = emailToken]
                /\ result' = successHandler(
                                 "Verification email sent successfully", NoData)

(***************************************************************************)
(* verifyEmail                                                             *)
(***************************************************************************)
verifyEmail(token) ==
    LET found == findUserByEmail(token.email)
    IN  /\ call' = Call("verifyEmail", NullToken)
        /\ UNCHANGED <<loginEvents, outbox, issued, redeemed, now, inflight>>
        /\ IF ~verifyEmailToken(token) \/ Len(found) = 0
           THEN /\ result' = Exception("BadRequestException",
                                 "Invalid or expired email verification token.")
                /\ UNCHANGED users
           ELSE /\ users' = [users EXCEPT ![found[1].id].status = StatusActive]
                /\ result' = successHandler("Email verified successfully", NoData)

(***************************************************************************)
(* login                                                                   *)
(***************************************************************************)
loginRestricted_never(userInfo) == FALSE

loginRestricted(userInfo) == userInfo.status = "inactive"

loginUnverified_never(userInfo) == FALSE

loginUnverified(userInfo) == userInfo.status = "unverified"

loginResponse(tokens, userInfo) ==
    successHandler("Login successful",
        [accessToken |-> tokens.accessToken,
         refreshToken |-> tokens.refreshToken,
         user |-> StripPassword(userInfo)])

login(email, password) ==
    LET found == findUserByEmail(email)
        userInfo == found[1]
        loggedIn == [userInfo EXCEPT !.last_login = now]
        tokens == getTokens(userInfo.id, userInfo.role)
    IN  /\ call' = Call("login", NullToken)
        /\ UNCHANGED <<outbox, redeemed, now, inflight>>
        /\ IF Len(found) = 0
           THEN /\ result' = Exception("NotFoundException",
                                       "User with this email does not exist")
                /\ UNCHANGED <<users, loginEvents, issued>>
           ELSE IF loginRestricted(userInfo)
           THEN /\ Len(loginEvents) < MaxEvents
                /\ loginEvents' = recordLoginEvent(userInfo, FALSE,
                                      "credentials", "Account Restricted")
                /\ result' = Exception("BadRequestException",
                                       "Account Restricted!")
                /\ UNCHANGED <<users, issued>>
           ELSE IF loginUnverified(userInfo)
           THEN /\ Len(loginEvents) < MaxEvents
                /\ loginEvents' = recordLoginEvent(userInfo, FALSE,
                                      "credentials", "Account not verified")
                /\ result' = successHandler("Account not verified",
                                            [email |-> userInfo.email])
                /\ UNCHANGED <<users, issued>>
           ELSE IF userInfo.password = NullHash
           THEN /\ result' = Exception("Error", "Illegal arguments")
                /\ UNCHANGED <<users, loginEvents, issued>>
           ELSE IF ~bcryptCompare(password, userInfo.password)
           THEN /\ Len(loginEvents) < MaxEvents
                /\ loginEvents' = recordLoginEvent(userInfo, FALSE,
                                      "credentials", "Invalid password")
                /\ result' = Exception("BadRequestException", "Invalid password")
                /\ UNCHANGED <<users, issued>>
           ELSE /\ Len(loginEvents) < MaxEvents
                /\ users' = SaveUser(loggedIn)
                /\ loginEvents' = recordLoginEvent(loggedIn, TRUE,
                                      "credentials", "null")
                /\ issued' = issued \cup {tokens.refreshToken}
                /\ result' = loginResponse(tokens, loggedIn)

(***************************************************************************)
(* refreshTokens.  onTheSecond: the call falls on a whole second, the one  *)
(* instant at which exp < Date.now() / 1000 is false for exp = now.        *)
(***************************************************************************)
refreshExpired(decoded, onTheSecond) ==
    decoded.exp < now \/ (decoded.exp = now /\ ~onTheSecond)

refreshFindUser(decoded) ==
    SelectSeq(users, LAMBDA u : u.id = decoded.sub)

AccessDenied ==
    [status |-> "BadRequestException", message |-> "Access Denied",
     data |-> [cause |-> "ForbiddenException"]]

refreshIssue_defaultRole(userInfo) == getTokens(userInfo.id, RoleUser)

refreshIssue(userInfo) == getTokens(userInfo.id, userInfo.role)

refreshTokens(token, onTheSecond) ==
    LET found == refreshFindUser(token)
        userInfo == found[1]
        tokens == refreshIssue(userInfo)
    IN  /\ call' = Call("refreshTokens", token)
        /\ UNCHANGED <<users, loginEvents, outbox, redeemed, now, inflight>>
        /\ IF \/ ~jwtDecode(token)
              \/ refreshExpired(token, onTheSecond)
              \/ Len(found) = 0
           THEN /\ result' = AccessDenied
                /\ UNCHANGED issued
           ELSE /\ result' = loginResponse(tokens, userInfo)
                /\ UNCHANGED issued

(***************************************************************************)
(* googleLogin                                                             *)
(***************************************************************************)
googleNewUser(email) ==
    [id |-> Len(users) + 1,
     email |-> email,
     password |-> NullHash,
     role |-> RoleUser,
     status |-> DefaultStatus,
     email_verification_token |-> NullToken,
     reset_pass_token |-> NullToken,
     reset_pass_token_expiry |-> NullDate,
     last_login |-> NullDate]

googleLogin(email) ==
    LET found == findUserByEmail(email)
        userInfo == IF Len(found) = 0 THEN googleNewUser(email) ELSE found[1]
        loggedIn == [userInfo EXCEPT !.last_login = now]
        tokens == getTokens(userInfo.id, userInfo.role)
    IN  /\ call' = Call("googleLogin", NullToken)
        /\ UNCHANGED <<outbox, redeemed, now, inflight>>
        /\ Len(loginEvents) < MaxEvents
        /\ users' = IF Len(found) = 0
                    THEN Append(users, loggedIn)
                    ELSE SaveUser(loggedIn)
        /\ loginEvents' = recordLoginEvent(loggedIn, TRUE, "google", "null")
        /\ issued' = issued \cup {tokens.refreshToken}
        /\ result' = loginResponse(tokens, loggedIn)

(***************************************************************************)
(* forgotPassword                                                          *)
(***************************************************************************)
generateResetToken(user) ==
    jwtSign([EmptyClaims EXCEPT !.id = user.id], JWT_SECRET, ResetTokenTTL)

forgotPassword(email, mailOk) ==
    LET found == findUserByEmail(email)
        user == found[1]
        token == generateResetToken(user)
    IN  /\ call' = Call("forgotPassword", NullToken)
        /\ UNCHANGED <<loginEvents, issued, redeemed, now, inflight>>
        /\ IF Len(found) = 0
           THEN /\ result' = Exception("NotFoundException", "User not found.")
                /\ UNCHANGED <<users, outbox>>
           ELSE /\ users' = SaveUser([user EXCEPT
                                !.reset_pass_token = token,
                                !.reset_pass_token_expiry = now + ResetExpiryDelta])
                /\ IF mailOk
                   THEN /\ Cardinality(outbox \cup {PasswordResetMail(email, token)})
                               <= MaxMails
                        /\ outbox' = outbox \cup {PasswordResetMail(email, token)}
                        /\ result' = successHandler(
                               "Password reset link sent to your email.", NoData)
                   ELSE /\ outbox' = outbox
                        /\ result' = Exception("Error",
                                               "sendPasswordResetEmail failed")

(***************************************************************************)
(* resetPassword                                                           *)
(***************************************************************************)
resetVerifyToken(token) == jwtVerify(token, JWT_SECRET)

resetFindUser_byIdOnly(token) ==
    SelectSeq(users, LAMBDA u : u.id = token.id)

resetFindUser(token) ==
    SelectSeq(users, LAMBDA u : /\ u.reset_pass_token = token
                                /\ (token.id = 0 \/ u.id = token.id))

resetExpired(user) == user.reset_pass_token_expiry < now

resetPassword(token, newPassword) ==
    LET found == resetFindUser(token)
        user == found[1]
    IN  /\ call' = Call("resetPassword", NullToken)
        /\ UNCHANGED <<loginEvents, outbox, issued, now, inflight>>
        /\ IF ~resetVerifyToken(token)
           THEN /\ result' = Exception("BadRequestException",
                                       "Invalid or expired token.")
                /\ UNCHANGED <<users, redeemed>>
           ELSE IF Len(found) = 0 \/ resetExpired(user)
           THEN /\ result' = Exception("BadRequestException",
                                       "Invalid or expired token.")
                /\ UNCHANGED <<users, redeemed>>
           ELSE /\ users' = SaveUser([user EXCEPT
                                !.password = hashPassword(newPassword),
                                !.reset_pass_token = NullToken,
                                !.reset_pass_token_expiry = NullDate])
                /\ redeemed' = redeemed \cup {token}
                /\ result' = successHandler("Password reset successful.", NoData)

(***************************************************************************)
(* Environment: an administrator restricts an account; a second passes.    *)
(***************************************************************************)
adminDeactivate(id) ==
    /\ users[id].status # "inactive"
    /\ users' = [users EXCEPT ![id].status = "inactive"]
    /\ call' = Call("adminDeactivate", NullToken)
    /\ result' = successHandler("User updated", NoData)
    /\ UNCHANGED <<loginEvents, outbox, issued, redeemed, now, inflight>>

Tick ==
    /\ now < MaxTime
    /\ now' = now + 1
    /\ call' = Call("tick", NullToken)
    /\ result' = Exception("none", "none")
    /\ UNCHANGED <<users, loginEvents, outbox, issued, redeemed, inflight>>

(***************************************************************************)
(* Tokens a caller can present: the ones mailed or returned, the same      *)
(* claims signed with another secret, a string that is no token, nothing.  *)
(***************************************************************************)
MailedTokens == {m.token : m \in outbox}

ForgedRefreshToken(sub, exp) ==
    [EmptyClaims EXCEPT !.secret = ForgedSecret, !.sub = sub, !.role = RoleUser,
                        !.exp = exp]

ForgedRefreshTokens ==
    {ForgedRefreshToken(1, MaxTime + 1), ForgedRefreshToken(1, 0),
     ForgedRefreshToken(Len(users) + 1, MaxTime + 1)}

VerifyInputs ==
    MailedTokens \cup {Forge(t) : t \in MailedTokens} \cup {MalformedToken}

ReturnedTokens ==
    IF result.status = "success" /\ "refreshToken" \in DOMAIN result.data
    THEN {result.data.refreshToken}
    ELSE {}

RefreshInputs ==
    issued \cup ReturnedTokens \cup ForgedRefreshTokens
           \cup {MalformedToken, NullToken}

SignUpStep(emails, roles) ==
    \E e \in emails, p \in Passwords, r \in roles, mailOk, ghlOk \in BOOLEAN :
        signUp(e, p, r, mailOk, ghlOk)

ResendStep(emails) ==
    \E e \in emails, mailOk \in BOOLEAN : resendVerificationEmail(e, mailOk)

VerifyEmailStep == \E t \in VerifyInputs : verifyEmail(t)

LoginStep(emails) == \E e \in emails, p \in Passwords : login(e, p)

RefreshStep ==
    \E t \in RefreshInputs, onTheSecond \in BOOLEAN :
        refreshTokens(t, onTheSecond)

GoogleLoginStep(emails) == \E e \in emails : googleLogin(e)

ForgotPasswordStep(emails) ==
    \E e \in emails, mailOk \in BOOLEAN : forgotPassword(e, mailOk)

ResetPasswordStep ==
    \E t \in VerifyInputs, p \in Passwords : resetPassword(t, p)

AdminStep == \E id \in 1..Len(users) : adminDeactivate(id)

(***************************************************************************)
(* Spec: every operation, one email address.                               *)
(***************************************************************************)
Next ==
    \/ SignUpStep(SoloEmails, Roles)
    \/ ResendStep(SoloEmails)
    \/ VerifyEmailStep
    \/ LoginStep(SoloEmails)
    \/ RefreshStep
    \/ GoogleLoginStep(SoloEmails)
    \/ ForgotPasswordStep(SoloEmails)
    \/ ResetPasswordStep
    \/ AdminStep
    \/ Tick

Spec == Init /\ [][Next]_vars

(***************************************************************************)
(* SpecAccount: the account lifecycle and the credentials login, that is   *)
(* every operation that writes what signUp, verifyEmail and login read     *)
(* (the user's existence, status and verification token).                  *)
(***************************************************************************)
NextAccount ==
    \/ SignUpStep(SoloEmails, {RoleUser})
    \/ ResendStep(SoloEmails)
    \/ VerifyEmailStep
    \/ LoginStep(SoloEmails)
    \/ GoogleLoginStep(SoloEmails)
    \/ AdminStep
    \/ Tick

SpecAccount == Init /\ [][NextAccount]_vars

(***************************************************************************)
(* SpecReset: password recovery over two accounts.                         *)
(***************************************************************************)
NextReset ==
    \/ SignUpStep(Emails, {RoleUser})
    \/ ForgotPasswordStep(Emails)
    \/ ResetPasswordStep
    \/ Tick

SpecReset == Init /\ [][NextReset]_vars

(***************************************************************************)
(* SpecRefresh: session issuance and refresh.                              *)
(***************************************************************************)
NextRefresh ==
    \/ SignUpStep(SoloEmails, Roles)
    \/ VerifyEmailStep
    \/ LoginStep(SoloEmails)
    \/ GoogleLoginStep(SoloEmails)
    \/ RefreshStep
    \/ AdminStep
    \/ Tick

SpecRefresh == Init /\ [][NextRefresh]_vars

(***************************************************************************)
(* Handlers step by step.  Frame(p) holds the locals of request p; Resume  *)
(* moves it to its next await, Finish ends it with what it returns or      *)
(* throws.                                                                 *)
(***************************************************************************)
Frame(p) == inflight[p]

Resume(p, frame) ==
    /\ inflight' = [inflight EXCEPT ![p] = frame]
    /\ UNCHANGED <<call, result>>

Finish(p, op, outcome) ==
    /\ inflight' = [inflight EXCEPT ![p] = IdleFrame]
    /\ call' = Call(op, NullToken)
    /\ result' = outcome

(* The unique index on the email column rejects the insert of a second row. *)
uniqueEmailViolated(email) == Len(UsersWithEmail(users, email)) # 0

StorageFailure ==
    Exception("QueryFailedError", "duplicate key value violates unique constraint")

MailFailed == Exception("Error", "sendVerificationEmail failed")

AuditFailed == Exception("Error", "loginEventRepo.save failed")

(***************************************************************************)
(* signUp: findUserByEmail; sendVerificationEmail; userRepo.save and the   *)
(* swallowed createContact.                                                *)
(***************************************************************************)
signUpFind(p, email, password, userRole) ==
    /\ Frame(p).pc = "idle"
    /\ UNCHANGED <<users, loginEvents, outbox, issued, redeemed, now>>
    /\ IF signUpEmailTaken(email)
       THEN Finish(p, "signUp",
                   Exception("BadRequestException",
                             "User with this email already exists"))
       ELSE Resume(p, [IdleFrame EXCEPT !.op = "signUp", !.pc = "send",
                                        !.email = email,
                                        !.password = password,
                                        !.role = userRole,
                                        !.token = generateEmailToken(email)])

signUpSend(p, mailOk) ==
    LET f == Frame(p)
        mail == VerificationMail(f.email, f.token)
    IN  /\ f.op = "signUp" /\ f.pc = "send"
        /\ UNCHANGED <<users, loginEvents, issued, redeemed, now>>
        /\ IF mailOk
           THEN /\ Cardinality(outbox \cup {mail}) <= MaxMails
                /\ outbox' = outbox \cup {mail}
                /\ Resume(p, [f EXCEPT !.pc = "save"])
           ELSE /\ outbox' = outbox
                /\ Finish(p, "signUp", MailFailed)

signUpSave(p, ghlOk) ==
    LET f == Frame(p)
        newUser == signUpNewUser(f.email, f.password, f.role, f.token)
    IN  /\ f.op = "signUp" /\ f.pc = "save"
        /\ UNCHANGED <<loginEvents, outbox, issued, redeemed, now>>
        /\ IF uniqueEmailViolated(f.email)
           THEN /\ users' = users
                /\ Finish(p, "signUp", StorageFailure)
           ELSE /\ users' = Append(users, newUser)
                /\ Finish(p, "signUp",
                          IF signUpContactThrows(ghlOk)
                          THEN Exception("Error", "createContact failed")
                          ELSE successHandler("User created successfully",
                                   [user |-> signUpReturnedUser(newUser)]))

(***************************************************************************)
(* The tail login and googleLogin share: save last_login, record the       *)
(* successful event, sign the tokens and return.                           *)
(***************************************************************************)
touchLastLogin(p) ==
    LET f == Frame(p)
        loggedIn == [f.userInfo EXCEPT !.last_login = now]
    IN  /\ f.pc = "touch"
        /\ users' = SaveUser(loggedIn)
        /\ Resume(p, [f EXCEPT !.userInfo = loggedIn, !.pc = "record"])
        /\ UNCHANGED <<loginEvents, outbox, issued, redeemed, now>>

afterAuditFailure_swallowed(frame) == [frame EXCEPT !.pc = "tokens"]

afterAuditFailure(frame) == IdleFrame

recordSuccess(p, loginMethod, auditOk) ==
    LET f == Frame(p)
    IN  /\ f.pc = "record"
        /\ UNCHANGED <<users, outbox, issued, redeemed, now>>
        /\ IF auditOk
           THEN /\ Len(loginEvents) < MaxEvents
                /\ loginEvents' = recordLoginEvent(f.userInfo, TRUE,
                                                   loginMethod, "null")
                /\ Resume(p, [f EXCEPT !.pc = "tokens",
                                       !.eventAt = Len(loginEvents) + 1])
           ELSE /\ loginEvents' = loginEvents
                /\ IF afterAuditFailure(f).pc = "idle"
                   THEN Finish(p, f.op, AuditFailed)
                   ELSE Resume(p, afterAuditFailure(f))

returnTokens(p) ==
    LET f == Frame(p)
        tokens == getTokens(f.userInfo.id, f.userInfo.role)
    IN  /\ f.pc = "tokens"
        /\ issued' = issued \cup {tokens.refreshToken}
        /\ Finish(p, f.op, loginResponse(tokens, f.userInfo))
        /\ UNCHANGED <<users, loginEvents, outbox, redeemed, now>>

(***************************************************************************)
(* login, step by step.  The branches that end at the first await after    *)
(* the lookup (unknown email, inactive, unverified, bcrypt error, wrong    *)
(* password) run as in login above.                                        *)
(***************************************************************************)
loginPasses(email, password) ==
    /\ Len(findUserByEmail(email)) # 0
    /\ ~loginRestricted(findUserByEmail(email)[1])
    /\ ~loginUnverified(findUserByEmail(email)[1])
    /\ findUserByEmail(email)[1].password # NullHash
    /\ bcryptCompare(password, findUserByEmail(email)[1].password)

loginFind(p, email, password) ==
    /\ Frame(p).pc = "idle"
    /\ IF loginPasses(email, password)
       THEN /\ Resume(p, [IdleFrame EXCEPT !.op = "login", !.pc = "touch",
                                           !.email = email,
                                           !.userInfo = findUserByEmail(email)[1]])
            /\ UNCHANGED <<users, loginEvents, outbox, issued, redeemed, now>>
       ELSE login(email, password)

loginTouch(p) == Frame(p).op = "login" /\ touchLastLogin(p)

loginRecord(p, auditOk) ==
    Frame(p).op = "login" /\ recordSuccess(p, "credentials", auditOk)

loginReturn(p) == Frame(p).op = "login" /\ returnTokens(p)

(***************************************************************************)
(* googleLogin, step by step.                                              *)
(***************************************************************************)
googleFind(p, email) ==
    LET found == findUserByEmail(email)
    IN  /\ Frame(p).pc = "idle"
        /\ Resume(p, [IdleFrame EXCEPT
                         !.op = "googleLogin",
                         !.pc = IF Len(found) = 0 THEN "create" ELSE "touch",
                         !.email = email,
                         !.userInfo = IF Len(found) = 0 THEN NoUser
                                      ELSE found[1]])
        /\ UNCHANGED <<users, loginEvents, outbox, issued, redeemed, now>>

googleCreate(p) ==
    LET f == Frame(p)
        newUser == googleNewUser(f.email)
    IN  /\ f.op = "googleLogin" /\ f.pc = "create"
        /\ UNCHANGED <<loginEvents, outbox, issued, redeemed, now>>
        /\ IF uniqueEmailViolated(f.email)
           THEN /\ users' = users
                /\ Finish(p, "googleLogin", StorageFailure)
           ELSE /\ users' = Append(users, newUser)
                /\ Resume(p, [f EXCEPT !.userInfo = newUser, !.pc = "touch"])

googleTouch(p) == Frame(p).op = "googleLogin" /\ touchLastLogin(p)

googleRecord(p, auditOk) ==
    Frame(p).op = "googleLogin" /\ recordSuccess(p, "google", auditOk)

googleReturn(p) == Frame(p).op = "googleLogin" /\ returnTokens(p)

(***************************************************************************)
(* resetPassword, step by step: jwt.verify and findOne; hash and save.     *)
(***************************************************************************)
resetPasses(token) ==
    /\ resetVerifyToken(token)
    /\ Len(resetFindUser(token)) # 0
    /\ ~resetExpired(resetFindUser(token)[1])

resetFind(p, token, newPassword) ==
    /\ Frame(p).pc = "idle"
    /\ IF resetPasses(token)
       THEN /\ Resume(p, [IdleFrame EXCEPT !.op = "resetPassword",
                                           !.pc = "save",
                                           !.password = newPassword,
                                           !.token = token,
                                           !.userInfo = resetFindUser(token)[1]])
            /\ UNCHANGED <<users, loginEvents, outbox, issued, redeemed, now>>
       ELSE resetPassword(token, newPassword)

resetSavedUser(f) ==
    [f.userInfo EXCEPT !.password = hashPassword(f.password),
                       !.reset_pass_token = NullToken,
                       !.reset_pass_token_expiry = NullDate]

resetSave(p) ==
    LET f == Frame(p)
    IN  /\ f.op = "resetPassword" /\ f.pc = "save"
        /\ users' = SaveUser(resetSavedUser(f))
        /\ redeemed' = redeemed \cup {f.token}
        /\ Finish(p, "resetPassword",
                  successHandler("Password reset successful.", NoData))
        /\ UNCHANGED <<loginEvents, outbox, issued, now>>

(***************************************************************************)
(* SpecRace: two requests at a time over one email address, signUp and     *)
(* googleLogin taken step by step.  SpecLoginRace: the same for login and  *)
(* googleLogin, over accounts that signUp and verifyEmail set up, all      *)
(* requests falling within one second of the clock.                        *)
(***************************************************************************)
SignUpSteps(p) ==
    \/ \E e \in SoloEmails, pw \in Passwords : signUpFind(p, e, pw, RoleUser)
    \/ \E mailOk \in BOOLEAN : signUpSend(p, mailOk)
    \/ \E ghlOk \in BOOLEAN : signUpSave(p, ghlOk)

LoginSteps(p) ==
    \/ \E e \in SoloEmails, pw \in Passwords : loginFind(p, e, pw)
    \/ loginTouch(p)
    \/ \E auditOk \in BOOLEAN : loginRecord(p, auditOk)
    \/ loginReturn(p)

GoogleSteps(p) ==
    \/ \E e \in SoloEmails : googleFind(p, e)
    \/ googleCreate(p)
    \/ googleTouch(p)
    \/ \E auditOk \in BOOLEAN : googleRecord(p, auditOk)
    \/ googleReturn(p)

ResetSteps(p) ==
    \/ \E t \in VerifyInputs, pw \in Passwords : resetFind(p, t, pw)
    \/ resetSave(p)

NextRace ==
    \/ \E p \in ProcIds : SignUpSteps(p)
    \/ \E p \in ProcIds : GoogleSteps(p)
    \/ Tick

SpecRace == Init /\ [][NextRace]_vars

NextLoginRace ==
    \/ SignUpStep(SoloEmails, {RoleUser})
    \/ VerifyEmailStep
    \/ \E p \in ProcIds : LoginSteps(p)
    \/ \E p \in ProcIds : GoogleSteps(p)

SpecLoginRace == Init /\ [][NextLoginRace]_vars

(***************************************************************************)
(* SpecResetRace: password recovery with two resetPassword requests at a   *)
(* time.                                                                   *)
(***************************************************************************)
NextResetRace ==
    \/ SignUpStep(SoloEmails, {RoleUser})
    \/ ForgotPasswordStep(SoloEmails)
    \/ \E p \in ProcIds : ResetSteps(p)
    \/ Tick

SpecResetRace == Init /\ [][NextResetRace]_vars

(***************************************************************************)
(* Outcomes, as the handlers signal them.                                  *)
(***************************************************************************)
Conflict ==
    Exception("BadRequestException", "User with this email already exists")

Restricted == Exception("BadRequestException", "Account Restricted!")

InvalidOrExpiredEmailToken ==
    Exception("BadRequestException",
              "Invalid or expired email verification token.")

NeedsVerification(email) ==
    successHandler("Account not verified", [email |-> email])

HasTokenPair(r) ==
    "accessToken" \in DOMAIN r.data \/ "refreshToken" \in DOMAIN r.data

LastEvent(log) == log[Len(log)]

FailedEvent(ev, userId, reason) ==
    /\ ev.userId = userId
    /\ ev.loginMethod = "credentials"
    /\ ev.successful = FALSE
    /\ ev.failureReason = reason

(***************************************************************************)
(* C1: a signUp with an email no stored user has, whose verification       *)
(* email is sent, persists exactly one user with that email, in status     *)
(* unverified and with a decodable (non-empty) email_verification_token,   *)
(* and the user it returns carries no password field.                      *)
(***************************************************************************)
C1_SignUpFresh ==
    [][call'.op = "signUp" =>
       \A e \in Emails :
          (/\ Len(UsersWithEmail(users, e)) = 0
           /\ \E p \in Passwords, r \in Roles, ghlOk \in BOOLEAN :
                 signUp(e, p, r, TRUE, ghlOk))
          => /\ Len(users') = Len(users) + 1
             /\ Len(UsersWithEmail(users', e)) = 1
             /\ UsersWithEmail(users', e)[1].status = "unverified"
             /\ UsersWithEmail(users', e)[1].email_verification_token
                    # NullToken
             /\ UsersWithEmail(users', e)[1].email_verification_token.wf
             /\ result'.status = "success"
             /\ "user" \in DOMAIN result'.data
             /\ "password" \notin DOMAIN result'.data.user
             /\ result'.data.user.email = e]_vars

C1_Witness ==
    /\ call.op = "signUp"
    /\ result.status = "success"
    /\ "password" \notin DOMAIN result.data.user
    /\ \E i \in 1..Len(users) :
          /\ users[i].email = result.data.user.email
          /\ users[i].status = "unverified"
          /\ users[i].email_verification_token.wf

(***************************************************************************)
(* C2: a signUp with an email a stored user already has fails with the     *)
(* duplicate-email rejection whatever the password, role and collaborator  *)
(* outcomes are, and changes neither the user table nor the mails sent.    *)
(***************************************************************************)
C2_SignUpDuplicate ==
    [][call'.op = "signUp" =>
       \A e \in Emails :
          (/\ Len(UsersWithEmail(users, e)) > 0
           /\ \E p \in Passwords, r \in Roles, mailOk, ghlOk \in BOOLEAN :
                 signUp(e, p, r, mailOk, ghlOk))
          => /\ result' = Conflict
             /\ users' = users
             /\ outbox' = outbox]_vars

C2_Witness ==
    /\ call.op = "signUp"
    /\ result = Conflict
    /\ Len(users) = 1

(***************************************************************************)
(* C3: a credentials login against an inactive user appends exactly one    *)
(* LoginEvent, with successful = FALSE and reason "Account Restricted",    *)
(* is rejected as restricted, returns no token pair and leaves the user    *)
(* table (last_login included) as it was, for every supplied password.     *)
(***************************************************************************)
C3_LoginInactive ==
    [][call'.op = "login" =>
       \A e \in Emails, p \in Passwords :
          (/\ Len(UsersWithEmail(users, e)) > 0
           /\ UsersWithEmail(users, e)[1].status = "inactive"
           /\ login(e, p))
          => /\ Len(loginEvents') = Len(loginEvents) + 1
             /\ SubSeq(loginEvents', 1, Len(loginEvents)) = loginEvents
             /\ FailedEvent(LastEvent(loginEvents'),
                            UsersWithEmail(users, e)[1].id, "Account Restricted")
             /\ result' = Restricted
             /\ ~HasTokenPair(result')
             /\ issued' = issued
             /\ users' = users]_vars

C3_Witness ==
    /\ call.op = "login"
    /\ result = Restricted
    /\ Len(loginEvents) > 0
    /\ LastEvent(loginEvents).successful = FALSE
    /\ LastEvent(loginEvents).failureReason = "Account Restricted"
    /\ users[LastEvent(loginEvents).userId].status = "inactive"
    /\ users[LastEvent(loginEvents).userId].password # NullHash

(***************************************************************************)
(* C4: a credentials login against an unverified user returns the          *)
(* "Account not verified" success payload that carries only the email,     *)
(* never an exception and never a token pair, and appends exactly one      *)
(* LoginEvent with successful = FALSE, for every supplied password.        *)
(***************************************************************************)
C4_LoginUnverified ==
    [][call'.op = "login" =>
       \A e \in Emails, p \in Passwords :
          (/\ Len(UsersWithEmail(users, e)) > 0
           /\ UsersWithEmail(users, e)[1].status = "unverified"
           /\ login(e, p))
          => /\ result' = NeedsVerification(e)
             /\ DOMAIN result'.data = {"email"}
             /\ Len(loginEvents') = Len(loginEvents) + 1
             /\ SubSeq(loginEvents', 1, Len(loginEvents)) = loginEvents
             /\ FailedEvent(LastEvent(loginEvents'),
                            UsersWithEmail(users, e)[1].id,
                            "Account not verified")
             /\ issued' = issued
             /\ users' = users]_vars

C4_Witness ==
    /\ call.op = "login"
    /\ result.status = "success"
    /\ result.message = "Account not verified"
    /\ Len(loginEvents) > 0
    /\ LastEvent(loginEvents).successful = FALSE
    /\ users[LastEvent(loginEvents).userId].status = "unverified"
    /\ users[LastEvent(loginEvents).userId].email = result.data.email

(***************************************************************************)
(* C5: verifyEmail with a token that jwt.verify rejects - expired (its     *)
(* exp is not after the clock), signed with another secret, or not a       *)
(* token - fails as invalid-or-expired and leaves every user unchanged.    *)
(***************************************************************************)
C5_VerifyEmailRejects ==
    [][call'.op = "verifyEmail" =>
       \A t \in VerifyInputs :
          (~jwtVerify(t, JWT_SECRET) /\ verifyEmail(t))
          => /\ result' = InvalidOrExpiredEmailToken
             /\ users' = users]_vars

C5_Witness ==
    /\ call.op = "verifyEmail"
    /\ result = InvalidOrExpiredEmailToken
    /\ outbox # {}
    /\ \A m \in outbox : m.kind = "verification" /\ m.token.exp <= now
    /\ \E i \in 1..Len(users) :
          /\ users[i].status = "unverified"
          /\ users[i].email_verification_token.exp <= now
          /\ users[i].email_verification_token.wf

(***************************************************************************)
(* C6: resetPassword sets the password exactly when the presented token    *)
(* passes jwt.verify, the user with the token's id stores that very token  *)
(* and that user's reset_pass_token_expiry is after the clock; then, and   *)
(* only then, it succeeds, stores the hash of the new password on that     *)
(* user and clears the token and the expiry; otherwise it fails as         *)
(* invalid-or-expired and the user table is unchanged.                     *)
(***************************************************************************)
InvalidOrExpiredResetToken ==
    Exception("BadRequestException", "Invalid or expired token.")

StoresToken(table, token) ==
    \E i \in 1..Len(table) :
        /\ table[i].id = token.id
        /\ table[i].reset_pass_token = token
        /\ table[i].reset_pass_token_expiry > now

C6_ResetPasswordIff ==
    [][call'.op = "resetPassword" =>
       \A t \in VerifyInputs, p \in Passwords :
          resetPassword(t, p)
          => IF jwtVerify(t, JWT_SECRET) /\ StoresToken(users, t)
             THEN /\ result' = successHandler("Password reset successful.",
                                              NoData)
                  /\ users' = [users EXCEPT
                                  ![t.id].password = hashPassword(p),
                                  ![t.id].reset_pass_token = NullToken,
                                  ![t.id].reset_pass_token_expiry = NullDate]
             ELSE /\ result' = InvalidOrExpiredResetToken
                  /\ users' = users]_vars

C6_Witness ==
    /\ call.op = "resetPassword"
    /\ result = successHandler("Password reset successful.", NoData)
    /\ \E t \in redeemed :
          /\ users[t.id].reset_pass_token = NullToken
          /\ users[t.id].reset_pass_token_expiry = NullDate
          /\ users[t.id].password = hashPassword("hunter2")
    /\ \E i \in 1..Len(users) : users[i].reset_pass_token # NullToken

(***************************************************************************)
(* C7: once resetPassword has accepted a token, every later resetPassword  *)
(* presenting that token fails as invalid-or-expired and leaves the user   *)
(* table unchanged.                                                        *)
(***************************************************************************)
C7_ResetTokenSingleUse ==
    [][call'.op = "resetPassword" =>
       \A t \in VerifyInputs, p \in Passwords :
          (t \in redeemed /\ resetPassword(t, p))
          => /\ result' = InvalidOrExpiredResetToken
             /\ users' = users]_vars

(***************************************************************************)
(* C8: refreshTokens given an unexpired refresh token that getTokens       *)
(* issued returns a pair whose access and refresh tokens both carry the    *)
(* sub and the role of the presented token.                                *)
(***************************************************************************)
C8_RefreshKeepsSubjectAndRole ==
    [][call'.op = "refreshTokens" =>
       \A t \in issued \cup ReturnedTokens, onTheSecond \in BOOLEAN :
          (/\ t.secret = REFRESH_TOKEN_SECRET
           /\ now < t.exp
           /\ refreshTokens(t, onTheSecond))
          => /\ result'.status = "success"
             /\ {"accessToken", "refreshToken"} \subseteq DOMAIN result'.data
             /\ result'.data.accessToken.sub = t.sub
             /\ result'.data.accessToken.role = t.role
             /\ result'.data.accessToken.secret = ACCESS_TOKEN_SECRET
             /\ result'.data.refreshToken.sub = t.sub
             /\ result'.data.refreshToken.role = t.role
             /\ result'.data.refreshToken.secret = REFRESH_TOKEN_SECRET]_vars

C8_Witness ==
    /\ call.op = "refreshTokens"
    /\ call.token \in issued
    /\ now < call.token.exp
    /\ result.status = "success"
    /\ HasTokenPair(result)
    /\ result.data.refreshToken.sub = call.token.sub
    /\ result.data.refreshToken.role = "admin"
    /\ result.data.refreshToken.iat > call.token.iat

(***************************************************************************)
(* C9: refreshTokens given a token that is missing, does not decode, is    *)
(* expired, is not signed with the refresh secret or names no stored user  *)
(* ends in "Access Denied" and returns no token pair.                      *)
(***************************************************************************)
C9_RefreshRejects ==
    [][call'.op = "refreshTokens" =>
       \A t \in RefreshInputs, onTheSecond \in BOOLEAN :
          (/\ \/ ~t.wf
              \/ t.exp < now
              \/ t.secret # REFRESH_TOKEN_SECRET
              \/ \A i \in 1..Len(users) : users[i].id # t.sub
           /\ refreshTokens(t, onTheSecond))
          => /\ result'.message = "Access Denied"
             /\ ~HasTokenPair(result')]_vars

(***************************************************************************)
(* C10: the signup-to-login path.  A signUp with a fresh email and a       *)
(* password leaves the user unverified, holding the mailed token and a     *)
(* hash the password matches; a login with the matching password while     *)
(* unverified returns "Account not verified" and adds one LoginEvent;      *)
(* verifyEmail with the stored, unexpired token makes the user active; a   *)
(* login with the matching password while active returns a token pair for  *)
(* that user, adds a LoginEvent with successful = TRUE and sets            *)
(* last_login to the clock.                                                *)
(***************************************************************************)
Stored(table, email) == UsersWithEmail(table, email)[1]

C10_SignUpToLogin ==
    [][/\ call'.op = "signUp" =>
            \A e \in Emails, p \in Passwords :
               (/\ Len(UsersWithEmail(users, e)) = 0
                /\ \E r \in Roles, ghlOk \in BOOLEAN :
                      signUp(e, p, r, TRUE, ghlOk))
               => /\ Len(UsersWithEmail(users', e)) = 1
                  /\ Stored(users', e).status = "unverified"
                  /\ bcryptCompare(p, Stored(users', e).password)
                  /\ jwtVerify(Stored(users', e).email_verification_token,
                               JWT_SECRET)
                  /\ VerificationMail(e,
                         Stored(users', e).email_verification_token) \in outbox'
       /\ call'.op = "login" =>
            \A e \in Emails, p \in Passwords :
               (/\ Len(UsersWithEmail(users, e)) > 0
                /\ Stored(users, e).status = "unverified"
                /\ bcryptCompare(p, Stored(users, e).password)
                /\ login(e, p))
               => /\ result' = NeedsVerification(e)
                  /\ Len(loginEvents') = Len(loginEvents) + 1
                  /\ Stored(users', e).status = "unverified"
       /\ call'.op = "verifyEmail" =>
            \A t \in VerifyInputs :
               (/\ jwtVerify(t, JWT_SECRET)
                /\ Len(UsersWithEmail(users, t.email)) > 0
                /\ Stored(users, t.email).email_verification_token = t
                /\ Stored(users, t.email).status = "unverified"
                /\ verifyEmail(t))
               => /\ result'.status = "success"
                  /\ Stored(users', t.email).status = "active"
       /\ call'.op = "login" =>
            \A e \in Emails, p \in Passwords :
               (/\ Len(UsersWithEmail(users, e)) > 0
                /\ Stored(users, e).status = "active"
                /\ bcryptCompare(p, Stored(users, e).password)
                /\ login(e, p))
               => /\ result'.status = "success"
                  /\ {"accessToken", "refreshToken"}
                         \subseteq DOMAIN result'.data
                  /\ result'.data.accessToken.sub = Stored(users, e).id
                  /\ result'.data.refreshToken.sub = Stored(users, e).id
                  /\ Len(loginEvents') = Len(loginEvents) + 1
                  /\ LastEvent(loginEvents').userId = Stored(users, e).id
                  /\ LastEvent(loginEvents').successful = TRUE
                  /\ LastEvent(loginEvents').loginMethod = "credentials"
                  /\ Stored(users', e).last_login = now]_vars

C10_Witness ==
    /\ call.op = "login"
    /\ result.status = "success"
    /\ HasTokenPair(result)
    /\ Len(loginEvents) = 2
    /\ FailedEvent(loginEvents[1], loginEvents[2].userId, "Account not verified")
    /\ loginEvents[2].successful = TRUE
    /\ loginEvents[2].loginMethod = "credentials"
    /\ users[loginEvents[2].userId].status = "active"
    /\ users[loginEvents[2].userId].last_login = now
    /\ users[loginEvents[2].userId].password # NullHash
    /\ result.data.accessToken.sub = loginEvents[2].userId

(***************************************************************************)
(* C11: every credentials login, whichever branch it takes (email no user  *)
(* has, inactive, unverified, wrong password, user without password hash,  *)
(* success), appends exactly one LoginEvent, and no step of any operation   *)
(* changes or removes a LoginEvent already in the log.                     *)
(***************************************************************************)
C11_LoginAlwaysAudited ==
    [][/\ call'.op = "login" => Len(loginEvents') = Len(loginEvents) + 1
       /\ Len(loginEvents') >= Len(loginEvents)
       /\ SubSeq(loginEvents', 1, Len(loginEvents)) = loginEvents]_vars

(***************************************************************************)
(* C12: a stored user's status changes only from unverified to active, by  *)
(* verifyEmail, or to inactive, by the administrator; in particular no     *)
(* operation takes an inactive user back to active.                        *)
(***************************************************************************)
C12_StatusTransitions ==
    [][\A i \in 1..Len(users) :
          users'[i].status # users[i].status
          => \/ /\ users[i].status = "unverified"
                /\ users'[i].status = "active"
                /\ call'.op = "verifyEmail"
             \/ /\ users'[i].status = "inactive"
                /\ call'.op = "adminDeactivate"]_vars

(***************************************************************************)
(* C14: in a signUp with a fresh email whose verification email is sent,   *)
(* a failing createContact changes nothing: the user is persisted and the  *)
(* success result returned; when sendVerificationEmail fails the signUp    *)
(* fails, and no user with that email is stored afterwards.                *)
(***************************************************************************)
C14_SignUpCollaboratorFailures ==
    [][call'.op = "signUp" =>
       \A e \in Emails :
          Len(UsersWithEmail(users, e)) = 0
          => /\ (\E p \in Passwords, r \in Roles : signUp(e, p, r, TRUE, FALSE))
                => /\ Len(UsersWithEmail(users', e)) = 1
                   /\ result'.status = "success"
                   /\ "user" \in DOMAIN result'.data
                   /\ result'.data.user.email = e
             /\ (\E p \in Passwords, r \in Roles, ghlOk \in BOOLEAN :
                    signUp(e, p, r, FALSE, ghlOk))
                => /\ result'.status # "success"
                   /\ users' = users
                   /\ Len(UsersWithEmail(users', e)) = 0
                   /\ outbox' = outbox]_vars

C14_Witness ==
    /\ call.op = "signUp"
    /\ result = MailFailed
    /\ \A e \in SoloEmails : Len(UsersWithEmail(users, e)) = 0

(***************************************************************************)
(* C15: verifyEmail given a token that passes jwt.verify but is not the    *)
(* email_verification_token stored on the user it names (an earlier token  *)
(* that resendVerificationEmail has replaced) fails as invalid-or-expired  *)
(* and leaves the user table unchanged.                                    *)
(***************************************************************************)
C15_VerifyEmailStoredToken ==
    [][call'.op = "verifyEmail" =>
       \A t \in VerifyInputs :
          (/\ Len(UsersWithEmail(users, t.email)) > 0
           /\ Stored(users, t.email).email_verification_token # t
           /\ verifyEmail(t))
          => /\ result' = InvalidOrExpiredEmailToken
             /\ users' = users]_vars

(***************************************************************************)
(* C16: resendVerificationEmail for an active user fails as already        *)
(* verified, sends nothing and leaves the user table unchanged; for a      *)
(* stored user that is not active (the email being sent) it stores a newly *)
(* signed token on that user alone and sends that same token to the        *)
(* address; for an email no user has it fails as not found and changes     *)
(* nothing.                                                                *)
(***************************************************************************)
AlreadyVerified == Exception("BadRequestException", "Account already verified")

UnknownEmail ==
    Exception("NotFoundException", "User with this email does not exist")

C16_Resend ==
    [][call'.op = "resendVerificationEmail" =>
       \A e \in Emails :
          /\ (/\ Len(UsersWithEmail(users, e)) > 0
              /\ Stored(users, e).status = "active"
              /\ \E mailOk \in BOOLEAN : resendVerificationEmail(e, mailOk))
             => /\ result' = AlreadyVerified
                /\ outbox' = outbox
                /\ users' = users
          /\ (/\ Len(UsersWithEmail(users, e)) > 0
              /\ Stored(users, e).status # "active"
              /\ resendVerificationEmail(e, TRUE))
             => /\ result'.status = "success"
                /\ Stored(users', e).email_verification_token
                       = jwtSign([EmptyClaims EXCEPT !.email = e],
                                 JWT_SECRET, EmailTokenTTL)
                /\ users' = [users EXCEPT
                                ![Stored(users, e).id].email_verification_token
                                    = Stored(users', e).email_verification_token]
                /\ VerificationMail(e,
                       Stored(users', e).email_verification_token) \in outbox'
                /\ outbox' \ outbox \subseteq
                       {VerificationMail(e,
                            Stored(users', e).email_verification_token)}
          /\ (/\ Len(UsersWithEmail(users, e)) = 0
              /\ \E mailOk \in BOOLEAN : resendVerificationEmail(e, mailOk))
             => /\ result' = UnknownEmail
                /\ outbox' = outbox
                /\ users' = users]_vars

C16_Witness ==
    /\ call.op = "resendVerificationEmail"
    /\ result.status = "success"
    /\ \E i \in 1..Len(users) :
          /\ users[i].status # "active"
          /\ users[i].email_verification_token.iat = now
          /\ now > 0
          /\ VerificationMail(users[i].email,
                              users[i].email_verification_token) \in outbox
          /\ Cardinality(outbox) > 1

(***************************************************************************)
(* C18: no operation returns a token pair for a user whose stored status   *)
(* is inactive when the operation is called: neither login, nor            *)
(* googleLogin, nor refreshTokens with a token issued to that user         *)
(* earlier.                                                                *)
(***************************************************************************)
C18_NoTokensForInactive ==
    [][(/\ call'.op \in {"login", "googleLogin", "refreshTokens"}
        /\ result'.status = "success"
        /\ HasTokenPair(result'))
       => \A i \in 1..Len(users) :
             users[i].id = result'.data.accessToken.sub
             => users[i].status # "inactive"]_vars

(***************************************************************************)
(* C19: googleLogin for an email no user has stores exactly one new user,  *)
(* active and without password hash; for an email a user has it stores no  *)
(* new user and keeps that user's password and status; in both cases it    *)
(* appends exactly one LoginEvent with successful = TRUE and method        *)
(* "google", sets last_login to the clock and returns a token pair whose   *)
(* subject is the user's id.                                               *)
(***************************************************************************)
C19_GoogleGetOrCreate ==
    [][call'.op = "googleLogin" =>
       \A e \in Emails :
          googleLogin(e)
          => /\ Len(UsersWithEmail(users', e)) = 1
             /\ IF Len(UsersWithEmail(users, e)) = 0
                THEN /\ Len(users') = Len(users) + 1
                     /\ Stored(users', e).status = "active"
                     /\ Stored(users', e).password = NullHash
                ELSE /\ Len(users') = Len(users)
                     /\ Stored(users', e).status = Stored(users, e).status
                     /\ Stored(users', e).password = Stored(users, e).password
             /\ Len(loginEvents') = Len(loginEvents) + 1
             /\ SubSeq(loginEvents', 1, Len(loginEvents)) = loginEvents
             /\ LastEvent(loginEvents').userId = Stored(users', e).id
             /\ LastEvent(loginEvents').successful = TRUE
             /\ LastEvent(loginEvents').loginMethod = "google"
             /\ Stored(users', e).last_login = now
             /\ result'.status = "success"
             /\ {"accessToken", "refreshToken"} \subseteq DOMAIN result'.data
             /\ result'.data.accessToken.sub = Stored(users', e).id
             /\ result'.data.refreshToken.sub = Stored(users', e).id]_vars

(***************************************************************************)
(* C13: with signUp and googleLogin requests for one email interleaved at  *)
(* their awaits, no step leaves two stored users with the same email; a    *)
(* signUp whose save finds the email taken meanwhile ends in the           *)
(* duplicate-email rejection, and a googleLogin whose insert finds it      *)
(* taken goes on with the stored user; neither ends in a storage failure.  *)
(***************************************************************************)
C13_UniqueEmailUnderRace ==
    [][/\ \A e \in Emails : Len(UsersWithEmail(users', e)) <= 1
       /\ \A p \in ProcIds :
             /\ (/\ Frame(p).op = "signUp"
                 /\ Frame(p).pc = "save"
                 /\ inflight'[p].pc = "idle"
                 /\ Len(UsersWithEmail(users, Frame(p).email)) > 0)
                => /\ result' = Conflict
                   /\ users' = users
             /\ (/\ Frame(p).op = "googleLogin"
                 /\ Frame(p).pc = "create"
                 /\ inflight'[p] # Frame(p)
                 /\ Len(UsersWithEmail(users, Frame(p).email)) > 0)
                => /\ users' = users
                   /\ inflight'[p].pc = "touch"
                   /\ inflight'[p].userInfo = Stored(users, Frame(p).email)]_vars

(***************************************************************************)
(* C17: when a login or googleLogin request returns a token pair, the log  *)
(* already holds a LoginEvent that this request appended, with             *)
(* successful = TRUE, the user the tokens name and the request's login     *)
(* method, and this request has already saved last_login on that user; a   *)
(* request whose audit write failed returns no token pair.                 *)
(***************************************************************************)
LoginMethod(op) == IF op = "login" THEN "credentials" ELSE "google"

C17_AuditBeforeReturn ==
    [][\A p \in ProcIds :
          (/\ Frame(p).op \in {"login", "googleLogin"}
           /\ inflight'[p].pc = "idle"
           /\ Frame(p).pc # "idle")
          => IF result'.status = "success" /\ HasTokenPair(result')
             THEN /\ Frame(p).eventAt \in 1..Len(loginEvents)
                  /\ loginEvents[Frame(p).eventAt].userId
                         = result'.data.accessToken.sub
                  /\ loginEvents[Frame(p).eventAt].successful = TRUE
                  /\ loginEvents[Frame(p).eventAt].loginMethod
                         = LoginMethod(Frame(p).op)
                  /\ Frame(p).userInfo.last_login # NullDate
                  /\ users[result'.data.accessToken.sub].last_login
                         >= Frame(p).userInfo.last_login
                  /\ loginEvents' = loginEvents
                  /\ users' = users
             ELSE /\ result' \in {AuditFailed, StorageFailure}
                  /\ Frame(p).eventAt = 0]_vars

C17_Witness ==
    /\ call.op = "login"
    /\ result.status = "success"
    /\ HasTokenPair(result)
    /\ Len(loginEvents) = 2
    /\ loginEvents[1].loginMethod = "google"
    /\ loginEvents[2].loginMethod = "credentials"
    /\ loginEvents[2].successful = TRUE
    /\ \E p \in ProcIds : inflight[p].op = "googleLogin" /\ inflight[p].pc = "tokens"

(***************************************************************************)
(* C20: with two resetPassword requests interleaved between lookup and     *)
(* save, a request whose token is no longer the one stored on the user     *)
(* when it comes to save - the other request has used it - ends as         *)
(* invalid-or-expired and sets no password.                                *)
(***************************************************************************)
C20_ResetRace ==
    [][\A p \in ProcIds :
          (/\ Frame(p).op = "resetPassword"
           /\ Frame(p).pc = "save"
           /\ inflight'[p].pc = "idle"
           /\ users[Frame(p).userInfo.id].reset_pass_token # Frame(p).token)
          => /\ result' = InvalidOrExpiredResetToken
             /\ users' = users]_vars

====
